---- MODULE Spec2Model ----
(***************************************************************************)
(* State-machine model of Source/cmLoadCommandCommand.cxx: the             *)
(* load_command directive (cmLoadCommandCommand::InitialPass), the loaded  *)
(* command proxy (cmLoadedCommand), its shared state (LoadedCommandImpl)   *)
(* and the signal guard around the calls into the plugin.                  *)
(*                                                                         *)
(* The host is single threaded and the model is not re-entrant: a call     *)
(* into the plugin is a pair of steps (entry / return) and nothing else    *)
(* runs between them.  The table the plugin's init function fills in is    *)
(* fixed afterwards, except for the Error field, which the plugin may      *)
(* overwrite during an immediate pass.                                     *)
(***************************************************************************)
EXTENDS Naturals, Sequences, FiniteSets, TLC

\* ------------------------------------------------------------------ bounds
MaxStates == 1          \* LoadedCommandImpl objects ever constructed
MaxProxies == 3         \* cmLoadedCommand objects ever constructed
MaxPending == 2         \* final actions pending in the makefile
MaxPathArgs == 1        \* path arguments of one load_command directive

StateIds == 1..MaxStates
ProxyIds == 1..MaxProxies
NoImpl == 0             \* a null shared_ptr / no object
NullPtr == "<nullptr>"  \* a null char*

\* ------------------------------------------------------- the environment
Names == {"Foo", "Bar"}
Dirs == {"d1", "d2"}
Patterns == {"d1", "d2", "d*"}
SharedModulePrefix == "lib"
SharedModuleSuffix == ".so"
NullName == "<null>"            \* a null const char* name
NoSymbol == "<nosym>"           \* a null symbol address
UnsetValue == "<unset>"         \* a variable with no definition
Garbage == "<garbage>"          \* bytes read from freed memory
ErrorTexts == {"bad arg"}       \* what a plugin reports
LoaderDiagnostic == "dlopen: invalid ELF header"
Signals == {"SIGSEGV", "SIGBUS", "SIGILL"}

\* The module files present on disk: d1 holds libcmFoo.so, d2 holds
\* libcmFoo.so and libcmBar.so.
FileExists(dir, file) ==
  \/ dir = "d1" /\ file = "libcmFoo.so"
  \/ dir = "d2" /\ file \in {"libcmFoo.so", "libcmBar.so"}

\* -------------------------------------------------- load_command helpers
ReportVarName(name) == "CMAKE_LOADED_COMMAND_" \o name

ModuleName(name) == SharedModulePrefix \o "cm" \o name \o SharedModuleSuffix

\* cmSystemTools::GlobDirs: the directories a path argument expands to.
GlobDirs(exp) ==
  IF exp = "d*" THEN <<"d1", "d2">>
  ELSE IF exp \in Dirs THEN <<exp>>
  ELSE <<>>

\* The search path built from args[1..] (0-based), in argument order.
RECURSIVE ExpandFrom(_, _)
ExpandFrom(args, j) ==
  IF j > Len(args) THEN <<>>
  ELSE GlobDirs(args[j]) \o ExpandFrom(args, j + 1)

ExpandPath(args) == ExpandFrom(args, 2)

\* cmSystemTools::FindFile: the file in the first directory holding it.
RECURSIVE FindFile(_, _)
FindFile(file, path) ==
  IF path = <<>> THEN ""
  ELSE IF FileExists(Head(path), file) THEN Head(path) \o "/" \o file
  ELSE FindFile(file, Tail(path))

ClearReportVarKeeps(defs, name) == defs

\* The report variable is removed before anything else is tried.
ClearReportVar(defs, name) ==
  [defs EXCEPT ![ReportVarName(name)] = UnsetValue]

ReportLoadedModuleName(defs, name, fullPath) ==
  [defs EXCEPT ![ReportVarName(name)] = ModuleName(name)]

\* The report variable records the file that was opened.
ReportLoaded(defs, name, fullPath) ==
  [defs EXCEPT ![ReportVarName(name)] = fullPath]

LookupFailureMessage(name) ==
  "Attempt to load command failed from file \"" \o ModuleName(name) \o "\""

LoadFailureMessage(fullPath, error) ==
  "Attempt to load the library " \o fullPath \o " failed."
    \o (IF error # NullName
        THEN " Additional error info is:\n" \o error
        ELSE "")

NoInitMessage == "Attempt to load command failed. No init function found."

CanonicalInit(name) == name \o "Init"
AlternateInit(name) == "_" \o name \o "Init"

ResolveInitBothAlways(exports, name) ==
  [lookups |-> <<CanonicalInit(name), AlternateInit(name)>>,
   initFunction |->
     IF AlternateInit(name) \in exports THEN AlternateInit(name)
     ELSE IF CanonicalInit(name) \in exports THEN CanonicalInit(name)
     ELSE NoSymbol]

\* GetSymbolAddress for <name>Init, then for _<name>Init if that was null.
ResolveInit(exports, name) ==
  IF CanonicalInit(name) \in exports
  THEN [lookups |-> <<CanonicalInit(name)>>,
        initFunction |-> CanonicalInit(name)]
  ELSE [lookups |-> <<CanonicalInit(name), AlternateInit(name)>>,
        initFunction |->
          IF AlternateInit(name) \in exports THEN AlternateInit(name)
          ELSE NoSymbol]

RegistersAlways(initFunction) == TRUE

\* The command is constructed and registered only with an init function.
Registers(initFunction) == initFunction # NoSymbol

LoadArgs ==
  {<<>>} \cup
  {<<n>> \o p : n \in Names,
                p \in UNION {[1..k -> Patterns] : k \in 0..MaxPathArgs}}

\* ------------------------------------------------------------------ state
VARIABLES
  impl,            \* StateId -> the LoadedCommandImpl object (the table)
  proxies,         \* ProxyId -> the cmLoadedCommand object
  registry,        \* command name -> registered proxy (cmState)
  definitions,     \* variable name -> value (cmMakefile definitions)
  finalActions,    \* cmMakefile's final actions: the captured impl of each
  drainIdx,        \* final actions already run by the drain in progress
  pc,              \* where the host is: idle, or inside which call
  cur,             \* the LoadedCommandImpl of the plugin call in progress
  ret,             \* where the host continues after a destructor returns
  LastName,        \* the file-static LastName
  handlers,        \* signal -> installed handler
  savedHandlers,   \* signal -> the handler signal() replaced (and returned)
                   \*           when the guard in place was entered
  initCalls,       \* StateId -> calls of the plugin's init function
  destructorCalls, \* StateId -> calls of the plugin's Destructor
  finalCalls,      \* StateId -> FinalPass calls of the drain in progress
  scheduled,       \* StateId -> successful immediate passes with a
                   \*            FinalPass since the last drain or discard
  lastFailed,      \* StateId -> whether its latest immediate pass since
                   \*            the last drain or discard returned failure
  lastOp           \* the host operation last started and what it returned

vars == <<impl, proxies, registry, definitions, finalActions, drainIdx, pc,
          cur, ret, LastName, handlers, savedHandlers, initCalls,
          destructorCalls, finalCalls, scheduled, lastFailed, lastOp>>

\* cmLoadedCommandInfo zero-initialised by the constructor.
ZeroTable ==
  [status |-> "none", cmd |-> "", initFunction |-> NoSymbol,
   InitialPass |-> FALSE, FinalPass |-> FALSE, Destructor |-> FALSE,
   Name |-> NullName, Error |-> NullPtr, frees |-> 0]

NoProxy == [status |-> "none", Impl |-> NoImpl]

NoOp ==
  [op |-> "none", args |-> <<>>, impl |-> NoImpl,
   ok |-> FALSE, errSet |-> FALSE, err |-> "",
   fullPath |-> "", opened |-> FALSE, lookups |-> <<>>,
   exports |-> {}, result |-> 0, stored |-> FALSE, called |-> FALSE]

Init ==
  /\ impl = [s \in StateIds |-> ZeroTable]
  /\ proxies = [p \in ProxyIds |-> NoProxy]
  /\ registry = [n \in Names |-> 0]
  /\ definitions = [v \in {ReportVarName(n) : n \in Names} |-> UnsetValue]
  /\ finalActions = <<>>
  /\ drainIdx = 0
  /\ pc = "idle"
  /\ cur = NoImpl
  /\ ret = "idle"
  /\ LastName = NullName
  /\ handlers = [sig \in Signals |-> "SIG_DFL"]
  /\ savedHandlers = [sig \in Signals |-> "SIG_DFL"]
  /\ initCalls = [s \in StateIds |-> 0]
  /\ destructorCalls = [s \in StateIds |-> 0]
  /\ finalCalls = [s \in StateIds |-> 0]
  /\ scheduled = [s \in StateIds |-> 0]
  /\ lastFailed = [s \in StateIds |-> FALSE]
  /\ lastOp = NoOp

NextStateId == Cardinality({s \in StateIds : impl[s].status # "none"}) + 1
NextProxyId == Cardinality({p \in ProxyIds : proxies[p].status # "none"}) + 1
LiveProxies == {p \in ProxyIds : proxies[p].status = "live"}

\* ------------------------------------------------------ SignalHandlerGuard
GuardNameUnchecked(name) == name

GuardName(name) == IF name # NullName THEN name ELSE "????"

\* signal() returns the handler it replaces; the constructor drops it.
GuardEnter(name) ==
  /\ LastName' = GuardName(name)
  /\ handlers' = [sig \in Signals |-> "TrapsForSignals"]
  /\ savedHandlers' = handlers

\* signal(sig, nullptr): the default disposition, whatever was there before.
GuardExit ==
  /\ handlers' = [sig \in Signals |-> "SIG_DFL"]
  /\ savedHandlers' = [sig \in Signals |-> "SIG_DFL"]
  /\ UNCHANGED LastName

\* --------------------------------------------------------- the C heap
\* The Error field of a table is null or points to a buffer the plugin
\* allocated, written here as the text in it; frees counts the calls of
\* free() on that buffer.

\* free(table.Error), if not null.  Freeing a buffer a second time is
\* undefined: the allocator detects it and aborts the process, or its heap
\* is corrupted, after which the process is not followed any further.
FreeOutcomes(table) ==
  IF table.Error = NullPtr THEN {[frees |-> table.frees, stop |-> "no"]}
  ELSE IF table.frees = 0 THEN {[frees |-> 1, stop |-> "no"]}
  ELSE {[frees |-> table.frees + 1, stop |-> e] :
          e \in {"aborted", "corrupted"}}

\* What reading the string at table.Error yields; freed: undefined, the
\* old bytes or whatever the allocator left there.
ReadOutcomes(table) ==
  IF table.frees = 0 THEN {table.Error} ELSE {table.Error, Garbage}

\* ------------------------------------------------- shared ownership
\* What is left of a destroyed LoadedCommandImpl: its identity, for the
\* record; its entry points and its Error field are gone with it.
Destroyed(table) ==
  [ZeroTable EXCEPT !.status = "dead", !.cmd = table.cmd,
                    !.initFunction = table.initFunction,
                    !.Destructor = table.Destructor, !.Name = table.Name,
                    !.frees = IF table.frees > 1 THEN table.frees ELSE 0]

IsLastReferenceUnshared(s, prx, acts) == TRUE

IsLastReferenceNever(s, prx, acts) == FALSE

IsLastReferenceProxiesOnly(s, prx, acts) ==
  \A p \in ProxyIds : ~(prx[p].status = "live" /\ prx[p].Impl = s)

\* The shared_ptr count of s is zero: no proxy and no captured impl holds it.
IsLastReference(s, prx, acts) ==
  /\ \A p \in ProxyIds : ~(prx[p].status = "live" /\ prx[p].Impl = s)
  /\ \A i \in 1..Len(acts) : acts[i] # s

\* ~LoadedCommandImpl up to the call of the plugin's Destructor, or all of
\* it when the table has none.  cont is where the host goes on afterwards.
DestroyImpl(s, cont) ==
  IF impl[s].Destructor
  THEN /\ GuardEnter(impl[s].Name)
       /\ destructorCalls' = [destructorCalls EXCEPT ![s] = @ + 1]
       /\ impl' = [impl EXCEPT ![s].status = "destroying"]
       /\ pc' = "Destructor"
       /\ cur' = s
       /\ ret' = cont
  ELSE /\ \E o \in FreeOutcomes(impl[s]) :
            /\ impl' = [impl EXCEPT ![s] = Destroyed([@ EXCEPT
                                                        !.frees = o.frees])]
            /\ pc' = IF o.stop = "no" THEN cont ELSE o.stop
       /\ UNCHANGED <<LastName, handlers, savedHandlers, destructorCalls, cur,
                      ret>>

\* One shared_ptr to s was dropped, leaving the holders prx and acts.
Release(s, prx, acts, cont) ==
  IF IsLastReference(s, prx, acts)
  THEN DestroyImpl(s, cont)
  ELSE /\ pc' = cont
       /\ UNCHANGED <<impl, LastName, handlers, savedHandlers, destructorCalls,
                      cur, ret>>

\* The plugin's Destructor returns: the guard goes, Error is freed.
DestructorReturn ==
  /\ pc = "Destructor"
  /\ GuardExit
  /\ \E o \in FreeOutcomes(impl[cur]) :
       /\ impl' = [impl EXCEPT ![cur] = Destroyed([@ EXCEPT
                                                    !.frees = o.frees])]
       /\ pc' = IF o.stop = "no" THEN ret ELSE o.stop
  /\ cur' = NoImpl
  /\ ret' = "idle"
  /\ UNCHANGED <<proxies, registry, definitions, finalActions, drainIdx,
                 initCalls, destructorCalls, finalCalls, scheduled, lastFailed,
                 lastOp>>

\* ------------------------------------- cmLoadCommandCommand::InitialPass
EmptyArgsResultFailure == FALSE

\* if (args.empty()) return true;
EmptyArgsResult == TRUE

\* The directive up to the call of the plugin's init function (made by the
\* LoadedCommandImpl constructor), or all of it when it returns earlier.
\* opens, loaderError and exports are the dynamic loader's answers.
LoadCommand(args, opens, loaderError, exports) ==
  /\ pc = "idle"
  /\ IF args = <<>>
     THEN /\ lastOp' = [NoOp EXCEPT !.op = "load", !.ok = EmptyArgsResult]
          /\ pc' = "returned"
          /\ UNCHANGED <<impl, definitions, initCalls, cur>>
     ELSE LET name == args[1]
              cleared == ClearReportVar(definitions, name)
              fullPath == FindFile(ModuleName(name), ExpandPath(args))
              op == [NoOp EXCEPT !.op = "load", !.args = args,
                                 !.fullPath = fullPath]
              sym == ResolveInit(exports, name)
              s == NextStateId
          IN IF fullPath = ""
             THEN /\ definitions' = cleared
                  /\ lastOp' = [op EXCEPT !.errSet = TRUE,
                                  !.err = LookupFailureMessage(name)]
                  /\ pc' = "returned"
                  /\ UNCHANGED <<impl, initCalls, cur>>
             ELSE IF ~opens
             THEN /\ definitions' = cleared
                  /\ lastOp' = [op EXCEPT !.errSet = TRUE,
                                  !.err = LoadFailureMessage(fullPath,
                                                             loaderError)]
                  /\ pc' = "returned"
                  /\ UNCHANGED <<impl, initCalls, cur>>
             ELSE IF Registers(sym.initFunction)
             THEN /\ s <= MaxStates
                  /\ NextProxyId <= MaxProxies
                  /\ definitions' = ReportLoaded(cleared, name, fullPath)
                  /\ impl' = [impl EXCEPT ![s] =
                               [ZeroTable EXCEPT !.status = "constructing",
                                  !.cmd = name,
                                  !.initFunction = sym.initFunction]]
                  /\ initCalls' = [initCalls EXCEPT ![s] = @ + 1]
                  /\ pc' = "Init"
                  /\ cur' = s
                  /\ lastOp' = [op EXCEPT !.opened = TRUE, !.impl = s,
                                  !.exports = exports,
                                  !.lookups = sym.lookups]
             ELSE /\ definitions' = ReportLoaded(cleared, name, fullPath)
                  /\ lastOp' = [op EXCEPT !.opened = TRUE,
                                  !.exports = exports,
                                  !.lookups = sym.lookups,
                                  !.errSet = TRUE, !.err = NoInitMessage]
                  /\ pc' = "returned"
                  /\ UNCHANGED <<impl, initCalls, cur>>
  /\ UNCHANGED <<proxies, registry, finalActions, drainIdx, ret, LastName,
                 handlers, savedHandlers, destructorCalls, finalCalls,
                 scheduled, lastFailed>>

\* The plugin's init function returns, having filled in the table; the
\* proxy is constructed over the new state and registered.
InitReturn(hasInitialPass, hasFinalPass, hasDestructor, name) ==
  /\ pc = "Init"
  /\ name \in {NullName, impl[cur].cmd}
  /\ LET p == NextProxyId IN
       /\ impl' = [impl EXCEPT ![cur].status = "live",
                               ![cur].InitialPass = hasInitialPass,
                               ![cur].FinalPass = hasFinalPass,
                               ![cur].Destructor = hasDestructor,
                               ![cur].Name = name]
       /\ proxies' = [proxies EXCEPT ![p] = [status |-> "live",
                                             Impl |-> cur]]
       /\ registry' = [registry EXCEPT ![impl[cur].cmd] = p]
       /\ lastOp' = [lastOp EXCEPT !.ok = TRUE]
  /\ pc' = "returned"
  /\ cur' = NoImpl
  /\ UNCHANGED <<definitions, finalActions, drainIdx, ret, LastName, handlers,
                 savedHandlers, initCalls, destructorCalls, finalCalls,
                 scheduled, lastFailed>>

\* ---------------------------------------------------------- cmLoadedCommand
CloneImplNull(srcImpl) == NoImpl

\* newC->Impl = this->Impl
CloneImpl(srcImpl) == srcImpl

Clone(p) ==
  /\ pc = "idle"
  /\ proxies[p].status = "live"
  /\ NextProxyId <= MaxProxies
  /\ proxies' = [proxies EXCEPT ![NextProxyId] =
                   [status |-> "live", Impl |-> CloneImpl(proxies[p].Impl)]]
  /\ lastOp' = [NoOp EXCEPT !.op = "clone", !.ok = TRUE]
  /\ pc' = "returned"
  /\ UNCHANGED <<impl, registry, definitions, finalActions, drainIdx, cur, ret,
                 LastName, handlers, savedHandlers, initCalls, destructorCalls,
                 finalCalls, scheduled, lastFailed>>

\* The host destroys a proxy (and forgets it, if it was registered).
DestroyProxy(p) ==
  /\ pc = "idle"
  /\ proxies[p].status = "live"
  /\ proxies' = [proxies EXCEPT ![p] = [status |-> "destroyed",
                                        Impl |-> NoImpl]]
  /\ registry' = [n \in Names |-> IF registry[n] = p THEN 0 ELSE registry[n]]
  /\ lastOp' = [NoOp EXCEPT !.op = "destroy", !.ok = TRUE]
  /\ IF proxies[p].Impl = NoImpl
     THEN /\ pc' = "returned"
          /\ UNCHANGED <<impl, cur, ret, LastName, handlers, savedHandlers,
                         destructorCalls>>
     ELSE Release(proxies[p].Impl, proxies', finalActions, "returned")
  /\ UNCHANGED <<definitions, finalActions, drainIdx, initCalls, finalCalls,
                 scheduled, lastFailed>>

ScheduleFinalAlways(result, hasFinalPass, acts, s) == Append(acts, s)

ScheduleFinalCancelling(result, hasFinalPass, acts, s) ==
  IF result = 0 THEN SelectSeq(acts, LAMBDA a : a # s)
  ELSE IF hasFinalPass THEN Append(acts, s)
  ELSE acts

\* AddFinalAction with a copy of Impl, on success with a FinalPass only.
ScheduleFinal(result, hasFinalPass, acts, s) ==
  IF result # 0 /\ hasFinalPass THEN Append(acts, s) ELSE acts

HasInitialPassAlways(table) == TRUE

\* if (!this->Impl->InitialPass) return true;
HasInitialPass(table) == table.InitialPass

\* cmLoadedCommand::InitialPass up to the plugin's InitialPass, or all of
\* it when the table has none.
InvokeInitialPass(p) ==
  /\ pc = "idle"
  /\ proxies[p].status = "live"
  /\ LET s == proxies[p].Impl
         op == [NoOp EXCEPT !.op = "invoke", !.impl = s]
     IN IF s = NoImpl
        THEN /\ pc' = "aborted"
             /\ lastOp' = op
             /\ UNCHANGED <<impl, cur, LastName, handlers, savedHandlers,
                            lastFailed>>
        ELSE IF ~HasInitialPass(impl[s])
        THEN /\ lastOp' = [op EXCEPT !.ok = TRUE]
             /\ pc' = "returned"
             /\ lastFailed' = [lastFailed EXCEPT ![s] = FALSE]
             /\ UNCHANGED <<impl, cur, LastName, handlers, savedHandlers>>
        ELSE /\ Len(finalActions) < MaxPending
             /\ UNCHANGED lastFailed
             /\ lastOp' = [op EXCEPT !.called = TRUE]
             /\ \E o \in FreeOutcomes(impl[s]) :
                  /\ impl' = [impl EXCEPT ![s].frees = o.frees]
                  /\ IF o.stop = "no"
                     THEN /\ pc' = "InitialPass"
                          /\ cur' = s
                          /\ GuardEnter(impl[s].Name)
                     ELSE /\ pc' = o.stop
                          /\ UNCHANGED <<cur, LastName, handlers,
                                         savedHandlers>>
  /\ UNCHANGED <<proxies, registry, definitions, finalActions, drainIdx, ret,
                 initCalls, destructorCalls, finalCalls, scheduled>>

\* The plugin's InitialPass returns result, having stored a new error
\* buffer holding text in the table or having left the Error field alone.
InitialPassReturn(result, store, text) ==
  /\ pc = "InitialPass"
  /\ LET s == cur
         table == IF store
                  THEN [impl[s] EXCEPT !.Error = text, !.frees = 0]
                  ELSE impl[s]
         op == [lastOp EXCEPT !.result = result, !.stored = store]
     IN /\ impl' = [impl EXCEPT ![s] = table]
        /\ finalActions' =
             ScheduleFinal(result, impl[s].FinalPass, finalActions, s)
        /\ scheduled' = IF result # 0 /\ impl[s].FinalPass
                        THEN [scheduled EXCEPT ![s] = @ + 1]
                        ELSE scheduled
        /\ lastFailed' = [lastFailed EXCEPT ![s] = (result = 0)]
        /\ IF result # 0
           THEN lastOp' = [op EXCEPT !.ok = TRUE]
           ELSE IF table.Error # NullPtr
           THEN \E read \in ReadOutcomes(table) :
                  lastOp' = [op EXCEPT !.errSet = TRUE, !.err = read]
           ELSE lastOp' = op
  /\ GuardExit
  /\ pc' = "returned"
  /\ cur' = NoImpl
  /\ UNCHANGED <<proxies, registry, definitions, drainIdx, ret, initCalls,
                 destructorCalls, finalCalls>>

\* ------------------------------------------- the execution context's end
\* cmMakefile runs its final actions, in the order they were added.
Drain ==
  /\ pc = "idle"
  /\ pc' = "drain"
  /\ drainIdx' = 0
  /\ lastOp' = [NoOp EXCEPT !.op = "drain", !.ok = TRUE]
  /\ UNCHANGED <<impl, proxies, registry, definitions, finalActions, cur, ret,
                 LastName, handlers, savedHandlers, initCalls, destructorCalls,
                 finalCalls, scheduled, lastFailed>>

\* LoadedCommandImpl::DoFinalPass up to the plugin's FinalPass.
DoFinalPass ==
  /\ pc = "drain"
  /\ drainIdx < Len(finalActions)
  /\ LET s == finalActions[drainIdx + 1] IN
       IF impl[s].FinalPass
       THEN /\ GuardEnter(impl[s].Name)
            /\ finalCalls' = [finalCalls EXCEPT ![s] = @ + 1]
            /\ pc' = "FinalPass"
            /\ cur' = s
       ELSE /\ pc' = "aborted"
            /\ UNCHANGED <<LastName, handlers, savedHandlers, finalCalls, cur>>
  /\ UNCHANGED <<impl, proxies, registry, definitions, finalActions, drainIdx,
                 ret, initCalls, destructorCalls, scheduled, lastFailed,
                 lastOp>>

FinalPassReturn ==
  /\ pc = "FinalPass"
  /\ GuardExit
  /\ drainIdx' = drainIdx + 1
  /\ pc' = "drain"
  /\ cur' = NoImpl
  /\ UNCHANGED <<impl, proxies, registry, definitions, finalActions, ret,
                 initCalls, destructorCalls, finalCalls, scheduled, lastFailed,
                 lastOp>>

\* Every final action has run: the context drops them.
DrainEnd ==
  /\ pc = "drain"
  /\ drainIdx = Len(finalActions)
  /\ pc' = "release"
  /\ UNCHANGED <<impl, proxies, registry, definitions, finalActions, drainIdx,
                 cur, ret, LastName, handlers, savedHandlers, initCalls,
                 destructorCalls, finalCalls, scheduled, lastFailed, lastOp>>

\* The context is discarded with its final actions not run.
DiscardContext ==
  /\ pc = "idle"
  /\ pc' = "release"
  /\ drainIdx' = 0
  /\ lastOp' = [NoOp EXCEPT !.op = "discard", !.ok = TRUE]
  /\ UNCHANGED <<impl, proxies, registry, definitions, finalActions, cur, ret,
                 LastName, handlers, savedHandlers, initCalls, destructorCalls,
                 finalCalls, scheduled, lastFailed>>

\* A final action is destroyed, and with it its copy of Impl.
ReleaseAction ==
  /\ pc = "release"
  /\ finalActions # <<>>
  /\ finalActions' = Tail(finalActions)
  /\ Release(Head(finalActions), proxies, Tail(finalActions), "release")
  /\ UNCHANGED <<proxies, registry, definitions, drainIdx, initCalls,
                 finalCalls, scheduled, lastFailed, lastOp>>

ReleaseDone ==
  /\ pc = "release"
  /\ finalActions = <<>>
  /\ pc' = "idle"
  /\ drainIdx' = 0
  /\ finalCalls' = [s \in StateIds |-> 0]
  /\ scheduled' = [s \in StateIds |-> 0]
  /\ lastFailed' = [s \in StateIds |-> FALSE]
  /\ lastOp' = NoOp
  /\ UNCHANGED <<impl, proxies, registry, definitions, finalActions, cur, ret,
                 LastName, handlers, savedHandlers, initCalls,
                 destructorCalls>>

\* The host has taken the result of the operation and goes on.
Resume ==
  /\ pc = "returned"
  /\ pc' = "idle"
  /\ lastOp' = NoOp
  /\ UNCHANGED <<impl, proxies, registry, definitions, finalActions, drainIdx,
                 cur, ret, LastName, handlers, savedHandlers, initCalls,
                 destructorCalls, finalCalls, scheduled, lastFailed>>

\* The init symbols a library built for the command of args may export.
InitSymbols(args) ==
  IF args = <<>> THEN {}
  ELSE {CanonicalInit(args[1]), AlternateInit(args[1])}

\* The directive as a script of the lifecycle specification issues it: a
\* module that is found, opens and exports an init symbol.
LifecycleLoadArgs == {<<"Foo", "d1">>}

Lifecycle ==
  \/ \E p \in ProxyIds : Clone(p)
  \/ \E p \in ProxyIds : DestroyProxy(p)
  \/ \E p \in ProxyIds : InvokeInitialPass(p)
  \/ \E result \in {0, 1} :
       \/ InitialPassReturn(result, FALSE, "")
       \/ \E text \in ErrorTexts : InitialPassReturn(result, TRUE, text)
  \/ Drain
  \/ DoFinalPass
  \/ FinalPassReturn
  \/ DrainEnd
  \/ DiscardContext
  \/ ReleaseAction
  \/ ReleaseDone
  \/ DestructorReturn
  \/ Resume

Next ==
  \/ \E args \in LifecycleLoadArgs :
       LoadCommand(args, TRUE, NullName, {CanonicalInit(args[1])})
  \/ \E ip \in BOOLEAN, fp \in BOOLEAN, d \in BOOLEAN, name \in Names :
       InitReturn(ip, fp, d, name)
  \/ Lifecycle

Spec == Init /\ [][Next]_vars

\* The load directive under every answer of the file system and of the
\* dynamic loader, for plugins whose init function fills in a full table.
NextLoad ==
  \/ \E args \in LoadArgs :
       \/ \E exports \in SUBSET InitSymbols(args) :
            LoadCommand(args, TRUE, NullName, exports)
       \/ \E loaderError \in {NullName, LoaderDiagnostic} :
            LoadCommand(args, FALSE, loaderError, {})
  \/ \E name \in Names : InitReturn(TRUE, TRUE, TRUE, name)
  \/ Resume

SpecLoad == Init /\ [][NextLoad]_vars

\* The host installs a handler of its own for a fault-class signal.
HostInstallsHandler(sig) ==
  /\ pc = "idle"
  /\ handlers[sig] # "HostHandler"
  /\ handlers' = [handlers EXCEPT ![sig] = "HostHandler"]
  /\ UNCHANGED <<impl, proxies, registry, definitions, finalActions, drainIdx,
                 pc, cur, ret, LastName, savedHandlers, initCalls,
                 destructorCalls, finalCalls, scheduled, lastFailed, lastOp>>

\* The guarded calls of one command at a time, for plugins that give the
\* table a display name or leave it null, in a host that may have handlers
\* of its own installed.
NextGuard ==
  \/ \E args \in LifecycleLoadArgs :
       LoadCommand(args, TRUE, NullName, {CanonicalInit(args[1])})
  \/ \E ip \in BOOLEAN, fp \in BOOLEAN, d \in BOOLEAN,
        name \in Names \cup {NullName} : InitReturn(ip, fp, d, name)
  \/ \E sig \in Signals : HostInstallsHandler(sig)
  \/ \E p \in ProxyIds : DestroyProxy(p)
  \/ \E p \in ProxyIds : InvokeInitialPass(p)
  \/ \E result \in {0, 1} : InitialPassReturn(result, FALSE, "")
  \/ Drain
  \/ DoFinalPass
  \/ FinalPassReturn
  \/ DrainEnd
  \/ ReleaseAction
  \/ ReleaseDone
  \/ DestructorReturn
  \/ Resume

SpecGuard == Init /\ [][NextGuard]_vars

\* ------------------------------------------------------------ the claims
LoadReturned ==
  pc = "returned" /\ lastOp.op = "load" /\ lastOp.args # <<>>

\* The report variable of the directive that lastOp records.
ReportedPath == definitions[ReportVarName(lastOp.args[1])]

\* Whether the library the directive opened exports an init symbol.
HasInitSymbol(op) == op.exports \cap InitSymbols(op.args) # {}

\* The holders of a shared_ptr to s.
ProxiesOf(s) ==
  {p \in ProxyIds : proxies[p].status = "live" /\ proxies[p].Impl = s}
ActionsOf(s) == {i \in 1..Len(finalActions) : finalActions[i] = s}

C6_LookupFailureClearsReport ==
  LoadReturned =>
    LET name == lastOp.args[1] IN
      /\ FindFile(ModuleName(name), ExpandPath(lastOp.args)) = "" =>
           /\ ~lastOp.ok
           /\ lastOp.errSet
           /\ lastOp.err = LookupFailureMessage(name)
           /\ ~lastOp.opened
      /\ ~lastOp.opened => ReportedPath = UnsetValue

\* A failed lookup for a name an earlier directive had loaded with success.
C6_Witness ==
  /\ LoadReturned
  /\ lastOp.fullPath = ""
  /\ lastOp.err = LookupFailureMessage(lastOp.args[1])
  /\ registry[lastOp.args[1]] # 0

\* C7: after a directive that names a command, the report variable is set
\* if and only if the library was opened, and then holds the full path the
\* directive resolved; it holds it also when no init symbol was found and
\* the directive failed.
C7_ReportedPathIffOpened ==
  LoadReturned =>
    /\ (ReportedPath # UnsetValue) <=> lastOp.opened
    /\ lastOp.opened =>
         /\ ReportedPath = lastOp.fullPath
         /\ ReportedPath =
              FindFile(ModuleName(lastOp.args[1]), ExpandPath(lastOp.args))
         /\ ReportedPath # ""
    /\ (lastOp.opened /\ ~HasInitSymbol(lastOp)) =>
         /\ ~lastOp.ok
         /\ lastOp.err = NoInitMessage
         /\ lastOp.impl = NoImpl

\* The library opened, no init symbol: failure, and the path is reported.
C7_Witness ==
  /\ LoadReturned
  /\ lastOp.opened
  /\ ~lastOp.ok
  /\ ReportedPath = "d2/libcmBar.so"

\* C8: symbol resolution looks up <name>Init first and _<name>Init only
\* when the first lookup found nothing; a canonical symbol that is present
\* is the init function used; the directive fails with the no-init message
\* exactly when the library exports neither.
C8_CanonicalFirst ==
  (lastOp.op = "load" /\ lastOp.opened /\ pc \in {"Init", "returned"}) =>
    LET name == lastOp.args[1]
        canonical == CanonicalInit(name)
        alternate == AlternateInit(name)
    IN /\ lastOp.lookups # <<>>
       /\ lastOp.lookups[1] = canonical
       /\ (canonical \in lastOp.exports) => lastOp.lookups = <<canonical>>
       /\ (canonical \notin lastOp.exports) =>
            lastOp.lookups = <<canonical, alternate>>
       /\ HasInitSymbol(lastOp) =>
            /\ lastOp.impl # NoImpl
            /\ impl[lastOp.impl].initFunction =
                 (IF canonical \in lastOp.exports THEN canonical
                  ELSE alternate)
       /\ (pc = "returned" /\ ~lastOp.ok) <=>
            (pc = "returned" /\ lastOp.errSet /\ lastOp.err = NoInitMessage)
       /\ (pc = "returned" /\ ~lastOp.ok) <=>
            (pc = "returned" /\ ~HasInitSymbol(lastOp))

\* Both symbols exported: one lookup, the canonical one, which is used.
C8_Witness ==
  /\ LoadReturned
  /\ lastOp.ok
  /\ lastOp.exports = InitSymbols(lastOp.args)
  /\ lastOp.lookups = <<CanonicalInit(lastOp.args[1])>>

InDrain == lastOp.op \in {"drain", "discard"}

\* The drain has run every final action and is dropping them.
DrainPointPassed == lastOp.op = "drain" /\ pc = "release"

\* C1: the Destructor of a table that has one is called once in all: not
\* while a proxy or a pending final action still refers to the state, and
\* as soon as the last of them is gone, however many clones there were.
C1_TeardownExactlyOnce ==
  \A s \in StateIds :
    /\ destructorCalls[s] <= 1
    /\ destructorCalls[s] = 1 =>
         /\ impl[s].Destructor
         /\ impl[s].status \in {"destroying", "dead"}
         /\ ProxiesOf(s) = {}
         /\ ActionsOf(s) = {}
    /\ (/\ impl[s].status \in {"live", "destroying", "dead"}
        /\ impl[s].Destructor
        /\ ProxiesOf(s) = {}
        /\ ActionsOf(s) = {}) => destructorCalls[s] = 1
    /\ (ProxiesOf(s) # {} \/ ActionsOf(s) # {}) => impl[s].status = "live"

\* The state is gone after its original proxy and two clones were.
C1_Witness ==
  \E s \in StateIds :
    /\ destructorCalls[s] = 1
    /\ impl[s].status = "dead"
    /\ Cardinality({p \in ProxyIds : proxies[p].status = "destroyed"}) = 3

\* C2 (as claimed): an immediate pass that returns failure without storing
\* an error text sets no host error message from the buffer an earlier
\* call left in the table.
C2_NoStaleError ==
  (/\ pc = "returned"
   /\ lastOp.op = "invoke"
   /\ lastOp.called
   /\ ~lastOp.ok
   /\ ~lastOp.stored) => ~lastOp.errSet

C4_OnlyAfterLatestSuccess ==
  pc = "FinalPass" => ~lastFailed[cur]

\* C4 (amended): FinalPass is called on a state only for a successful
\* immediate pass on it since the last drain, and a later failing pass
\* cancels nothing: when the drain has run the final actions, a state whose
\* latest immediate pass failed has had one FinalPass call per earlier
\* successful pass all the same.
C4_FailureCancelsNothing ==
  /\ pc = "FinalPass" =>
       /\ impl[cur].FinalPass
       /\ scheduled[cur] >= 1
       /\ finalCalls[cur] <= scheduled[cur]
  /\ DrainPointPassed =>
       \A s \in StateIds : lastFailed[s] => finalCalls[s] = scheduled[s]
  /\ (pc = "returned" /\ lastOp.op = "invoke" /\ ~lastOp.ok) =>
       Cardinality(ActionsOf(lastOp.impl)) = scheduled[lastOp.impl]

\* Success, then failure, then the drain: FinalPass has run.
C4_Witness ==
  /\ DrainPointPassed
  /\ \E s \in StateIds : lastFailed[s] /\ finalCalls[s] = 1

\* C9: the init function is called once for each state, when it is
\* constructed; Clone makes one new proxy whose Impl is the Impl of a live
\* proxy (the same object, so what one proxy stores in it the others see)
\* and neither calls the init function nor touches any table.
C9_CloneSharesState ==
  [][/\ (pc = "idle" /\ lastOp'.op = "clone") =>
          /\ initCalls' = initCalls
          /\ impl' = impl
          /\ \E q \in ProxyIds :
               /\ proxies[q].status = "none"
               /\ proxies'[q].status = "live"
               /\ \E p \in LiveProxies :
                    /\ p # q
                    /\ proxies'[q].Impl = proxies[p].Impl
                    /\ proxies'[p] = proxies[p]
               /\ impl[proxies'[q].Impl].status = "live"
               /\ \A r \in ProxyIds \ {q} : proxies'[r] = proxies[r]
     /\ \A s \in StateIds :
          /\ initCalls'[s] = (IF impl'[s].status = "none" THEN 0 ELSE 1)
          /\ initCalls'[s] >= initCalls[s]
    ]_vars

\* A proxy, its clone and a clone of the clone share a state that holds an
\* error text stored through one of them; init ran once.
C9_Witness ==
  \E s \in StateIds :
    /\ Cardinality(ProxiesOf(s)) = 3
    /\ initCalls[s] = 1
    /\ impl[s].Error # NullPtr

\* C10 (as claimed): every operation that returns failure has set a host
\* error message; for a failing immediate pass it is the text in the
\* plugin's error buffer, the empty text when the buffer is null.
C10_FailureSetsError ==
  (pc = "returned" /\ lastOp.op \in {"load", "invoke"} /\ ~lastOp.ok) =>
    /\ lastOp.errSet
    /\ lastOp.op = "invoke" =>
         lastOp.err = (IF impl[lastOp.impl].Error = NullPtr THEN ""
                       ELSE impl[lastOp.impl].Error)

\* A plugin entry point called under a SignalHandlerGuard is running.
InGuardedCall == pc \in {"InitialPass", "FinalPass", "Destructor"}

\* C11 (as claimed): when a guarded call returns, each fault-class signal
\* has the handler again that it had just before the guard was entered.
C11_HandlersRestored ==
  [][(InGuardedCall /\ ~InGuardedCall') =>
       \A sig \in Signals : handlers'[sig] = savedHandlers[sig]]_vars

\* C13: while the plugin's InitialPass, FinalPass or Destructor runs, every
\* fault-class signal has the handler TrapsForSignals and LastName is the
\* Name of that table, or "????" when Name is null; while the plugin's init
\* function runs, no signal has the handler TrapsForSignals.
C13_GuardedCalls ==
  /\ InGuardedCall =>
       /\ \A sig \in Signals : handlers[sig] = "TrapsForSignals"
       /\ LastName = (IF impl[cur].Name = NullName THEN "????"
                      ELSE impl[cur].Name)
  /\ pc = "Init" =>
       \A sig \in Signals : handlers[sig] # "TrapsForSignals"
  /\ (\E sig \in Signals : handlers[sig] = "TrapsForSignals") =>
       InGuardedCall

\* The Destructor of a table whose Name is null runs under the guard.
C13_Witness ==
  /\ pc = "Destructor"
  /\ impl[cur].Name = NullName
  /\ LastName = "????"
  /\ \A sig \in Signals : handlers[sig] = "TrapsForSignals"

\* C14 (as claimed): outside a guarded call no name is recorded in
\* LastName, so it never names a state that has been destroyed.
C14_NoNameOutsideCall ==
  ~InGuardedCall => LastName = NullName

\* C12: the immediate pass of a proxy whose table has no InitialPass
\* returns success at once: no plugin call, no guard (handlers and LastName
\* as they were), the table and its Error field untouched, no host error
\* message and no final action added, with or without a FinalPass.
C12_NoInitialPassIsNoOp ==
  [][(/\ pc = "idle"
      /\ lastOp'.op = "invoke"
      /\ lastOp'.impl # NoImpl
      /\ ~impl[lastOp'.impl].InitialPass) =>
       /\ pc' = "returned"
       /\ lastOp'.ok
       /\ ~lastOp'.called
       /\ ~lastOp'.errSet
       /\ impl' = impl
       /\ handlers' = handlers
       /\ LastName' = LastName
       /\ finalActions' = finalActions
       /\ scheduled' = scheduled
       /\ cur' = cur]_vars

\* Such a pass has returned, on a table that does have a FinalPass.
C12_Witness ==
  /\ pc = "returned"
  /\ lastOp.op = "invoke"
  /\ lastOp.ok
  /\ ~lastOp.called
  /\ ~impl[lastOp.impl].InitialPass
  /\ impl[lastOp.impl].FinalPass
  /\ finalActions = <<>>

\* C15: a load directive with no arguments returns success and changes
\* nothing: no report variable removed or set, no search, no open, no
\* symbol lookup, no plugin call, no error message, the registry as it was.
C15_EmptyArgsNoOp ==
  [][(pc = "idle" /\ lastOp'.op = "load" /\ lastOp'.args = <<>>) =>
       /\ pc' = "returned"
       /\ lastOp' = [NoOp EXCEPT !.op = "load", !.ok = TRUE]
       /\ definitions' = definitions
       /\ registry' = registry
       /\ proxies' = proxies
       /\ impl' = impl
       /\ initCalls' = initCalls
       /\ cur' = cur]_vars

\* It returned after an earlier directive had registered a command and set
\* its report variable.
C15_Witness ==
  /\ pc = "returned"
  /\ lastOp.op = "load"
  /\ lastOp.args = <<>>
  /\ lastOp.ok
  /\ \E n \in Names :
       /\ registry[n] # 0
       /\ definitions[ReportVarName(n)] # UnsetValue

\* The stages a load directive has gone through, as lastOp records them:
\* each one only after the one before it succeeded.
LoadStagesInOrder ==
  lastOp.op = "load" =>
    /\ lastOp.opened => lastOp.fullPath # ""
    /\ lastOp.lookups # <<>> => lastOp.opened
    /\ Len(lastOp.lookups) <= 2
    /\ Len(lastOp.lookups) = 2 => lastOp.lookups[1] # lastOp.lookups[2]
    /\ lastOp.impl # NoImpl =>
         /\ lastOp.lookups # <<>>
         /\ lastOp.lookups[Len(lastOp.lookups)] \in lastOp.exports
         /\ initCalls[lastOp.impl] = 1
    /\ (pc = "returned" /\ ~lastOp.ok) => lastOp.impl = NoImpl

\* C16: the load directive is one forward pass: the library is opened only
\* when the search found a file, symbols are looked up only in an opened
\* library, each at most once, and the init function is called, once, only
\* with a symbol that resolved. A directive that fails calls no plugin
\* code, and each call of an init function belongs to one directive that
\* then returns success, each successful directive to one such call.
C16_SinglePass ==
  [][/\ LoadStagesInOrder'
     /\ initCalls' # initCalls =>
          /\ pc = "idle"
          /\ pc' = "Init"
          /\ lastOp'.op = "load"
          /\ initCalls' = [initCalls EXCEPT ![lastOp'.impl] = @ + 1]
     /\ pc = "Init" => (pc' = "returned" /\ lastOp'.ok /\ lastOp'.op = "load")
     /\ (/\ pc' = "returned"
         /\ pc # "returned"
         /\ lastOp'.op = "load"
         /\ lastOp'.ok
         /\ lastOp'.args # <<>>) => pc = "Init"
     /\ (pc = "idle" /\ pc' = "returned" /\ lastOp'.op = "load") =>
          /\ initCalls' = initCalls
          /\ impl' = impl
    ]_vars

\* A directive failed for want of an init symbol, after both lookups, when
\* an earlier directive had succeeded.
C16_Witness ==
  /\ pc = "returned"
  /\ lastOp.op = "load"
  /\ ~lastOp.ok
  /\ lastOp.opened
  /\ Len(lastOp.lookups) = 2
  /\ \E s \in StateIds : initCalls[s] = 1 /\ impl[s].status = "live"

\* The context was discarded and the last of its final actions dropped.
DiscardDone ==
  lastOp.op = "discard" /\ pc = "release" /\ finalActions = <<>>

\* C17: when the context is discarded, no FinalPass is called for the
\* final actions pending in it, and once the actions are dropped every
\* state that no proxy holds is destroyed, its Destructor, if it has one,
\* called once.
C17_DiscardReleases ==
  /\ lastOp.op = "discard" =>
       /\ pc \notin {"drain", "FinalPass"}
       /\ \A s \in StateIds : finalCalls[s] = 0
  /\ DiscardDone =>
       \A s \in StateIds :
         (impl[s].status \notin {"none", "constructing"}
            /\ ProxiesOf(s) = {}) =>
           /\ impl[s].status = "dead"
           /\ destructorCalls[s] = (IF impl[s].Destructor THEN 1 ELSE 0)

\* The discard dropped the last holder of a state a final action had been
\* pending for: its Destructor has run, its FinalPass has not.
C17_Witness ==
  /\ DiscardDone
  /\ \E s \in StateIds :
       /\ scheduled[s] >= 1
       /\ finalCalls[s] = 0
       /\ impl[s].status = "dead"
       /\ destructorCalls[s] = 1

\* C18 (as claimed): no error buffer is freed twice, and the buffer the
\* host error message is read from has not been freed.
C18_BuffersReleasedOnce ==
  /\ \A s \in StateIds : impl[s].frees <= 1
  /\ (pc = "returned" /\ lastOp.op = "invoke" /\ lastOp.errSet) =>
       impl[lastOp.impl].frees = 0

\* C19: a state with a final action pending is live, its Destructor not
\* called, whatever has become of the proxies; FinalPass is only ever
\* running on such a state.
C19_ActionHoldsState ==
  /\ \A s \in StateIds :
       ActionsOf(s) # {} =>
         /\ impl[s].status = "live"
         /\ destructorCalls[s] = 0
  /\ pc = "FinalPass" =>
       /\ ActionsOf(cur) # {}
       /\ impl[cur].status = "live"
       /\ destructorCalls[cur] = 0

\* FinalPass is running on a state with a Destructor after the scheduling
\* proxy and a clone of it were destroyed.
C19_Witness ==
  /\ pc = "FinalPass"
  /\ impl[cur].Destructor
  /\ ProxiesOf(cur) = {}
  /\ Cardinality({p \in ProxyIds : proxies[p].status = "destroyed"}) >= 2
====
